---------------------------- MODULE Spec2Model ----------------------------
(***************************************************************************)
(* Model of storeapi/base/impl/WinMockContext.cpp: the client of the MS    *)
(* Store mock server.  Text that the code inspects character by character  *)
(* (the environment value, URLs, query strings, timestamps) is a sequence  *)
(* of one-character strings.                                               *)
(***************************************************************************)
EXTENDS Integers, Sequences, FiniteSets, TLC

(***************************************************************************)
(* Bounds of the model.                                                    *)
(***************************************************************************)
\* longest kinds / ids argument handed to GetProducts
MaxLen == 2
\* how many query operations the process starts in one behaviour
MaxCalls == 2

(***************************************************************************)
(* Text constants of the source.                                           *)
(***************************************************************************)
HttpScheme == <<"h","t","t","p",":","/","/">>
DefaultHostPort == <<"1","2","7",".","0",".","0",".","1",":","9">>
ProductsPath == <<"/","p","r","o","d","u","c","t","s">>
UsersPath == <<"/","a","l","l","a","u","t","h","e","n","t","i","c","a","t","e","d","u","s","e","r","s">>
JwtPath == <<"g","e","n","e","r","a","t","e","u","s","e","r","j","w","t">>
KindsKey == <<"k","i","n","d","s">>
IdsKey == <<"i","d","s">>
ServiceTicketKey == <<"s","e","r","v","i","c","e","t","i","c","k","e","t">>
PublisherUserIdKey == <<"p","u","b","l","i","s","h","e","r","u","s","e","r","i","d">>
endpointSize == 20

Digits == {"0","1","2","3","4","5","6","7","8","9"}
Letters == {"a","b","c","d","e","f","g","h","i","j","k","l","m","n","o","p","q",
            "r","s","t","u","v","w","x","y","z",
            "A","B","C","D","E","F","G","H","I","J","K","L","M","N","O","P","Q",
            "R","S","T","U","V","W","X","Y","Z"}

(***************************************************************************)
(* The process environment: UP4W_MS_STORE_MOCK_ENDPOINT is unset or holds  *)
(* a text.                                                                 *)
(***************************************************************************)
Unset == [set |-> FALSE, val |-> <<>>]
SetTo(v) == [set |-> TRUE, val |-> v]

ConfiguredHostPort == <<"2","0","3",".","0",".","1","1","3",".","5",":","8","0","8","0">>
\* 20 characters: one more than fits
JustTooLong == <<"1","9","8",".","5","1",".","1","0","0",".","2","0","0",":","1","8","0","8","0">>
\* 27 characters
Oversized == <<"m","o","c","k","s","t","o","r","e",".","e","x","a","m","p","l","e",".","t","e","s","t",":","8","0","8","0">>
\* no port
Malformed == <<"l","o","c","a","l","h","o","s","t">>

EnvValues == {Unset, SetTo(ConfiguredHostPort), SetTo(JustTooLong),
              SetTo(Oversized), SetTo(Malformed)}

\* What the uninitialised stack buffer `wchar_t endpoint[endpointSize]` may
\* read as (the text before its first NUL) when nothing was written to it.
UninitialisedBuffers == { <<>>, <<"?"," ">>, <<"m","o","c","k">> }

\* GetEnvironmentVariableW(name, buffer, nSize): 0 when the variable is not
\* found; the length copied when value and terminator fit; otherwise the
\* size required, the buffer's contents being undefined (left as they were).
GetEnvironmentVariableW(e, buffer, nSize) ==
    IF ~e.set \/ Len(e.val) = 0
    THEN [ret |-> 0, buffer |-> buffer]
    ELSE IF Len(e.val) + 1 <= nSize
         THEN [ret |-> Len(e.val), buffer |-> e.val]
         ELSE [ret |-> Len(e.val) + 1, buffer |-> buffer]

EndpointOr(r) == IF 0 = r.ret THEN DefaultHostPort ELSE r.buffer

readStoreMockEndpoint(e, uninit) ==
    EndpointOr(GetEnvironmentVariableW(e, uninit, endpointSize))

\* the initialiser of buildUri's static `endpoint`
EndpointInitialiser(e, uninit) == HttpScheme \o readStoreMockEndpoint(e, uninit)

(***************************************************************************)
(* UrlParams = std::unordered_multimap<hstring, hstring>.  The container   *)
(* is the sequence of its pairs in iteration order.  The order in which an *)
(* unordered container yields its elements is unspecified, except that     *)
(* elements with equal keys are adjacent: an insertion may land anywhere   *)
(* that keeps equal keys together.                                         *)
(***************************************************************************)
InsertAt(s, i, e) == SubSeq(s, 1, i) \o <<e>> \o SubSeq(s, i + 1, Len(s))

EqualKeysAdjacent(s) ==
    \A i, j \in 1..Len(s) :
        (i < j /\ s[i][1] = s[j][1]) => \A k \in i..j : s[k][1] = s[i][1]

\* std::unordered_map in place of the multimap: a key is kept once
UrlParamsInsertUniqueKey(s, e) ==
    IF \E i \in 1..Len(s) : s[i][1] = e[1] THEN {s}
    ELSE { c \in { InsertAt(s, i, e) : i \in 0..Len(s) } : EqualKeysAdjacent(c) }

UrlParamsInsert(s, e) ==
    { c \in { InsertAt(s, i, e) : i \in 0..Len(s) } : EqualKeysAdjacent(c) }

RECURSIVE InsertAll(_, _)
InsertAll(S, es) ==
    IF es = <<>> THEN S
    ELSE InsertAll(UNION { UrlParamsInsert(s, Head(es)) : s \in S }, Tail(es))

\* std::ranges::transform(values, inserter, v -> make_pair(key, v))
PairsOf(key, values) == [i \in 1..Len(values) |-> <<key, values[i]>>]

\* the containers GetProducts may hand to call()
GetProductsParams(kinds, ids) ==
    InsertAll(InsertAll({<<>>}, PairsOf(KindsKey, kinds)), PairsOf(IdsKey, ids))

\* the publisheruserid pair inserted without the test of userId
GenerateUserJwtParamsUnguarded(token, userId) ==
    InsertAll({<< <<ServiceTicketKey, token>> >>},
              << <<PublisherUserIdKey, userId>> >>)

\* the containers GenerateUserJwt may hand to call()
GenerateUserJwtParams(token, userId) ==
    IF userId # <<>>
    THEN InsertAll({<< <<ServiceTicketKey, token>> >>},
                   << <<PublisherUserIdKey, userId>> >>)
    ELSE {<< <<ServiceTicketKey, token>> >>}

(***************************************************************************)
(* HttpFormUrlEncodedContent: application/x-www-form-urlencoded.           *)
(***************************************************************************)
Unreserved == Digits \cup Letters \cup {"-", "_", ".", "*"}

PercentCode(c) ==
    CASE c = "&" -> <<"%","2","6">>
      [] c = "=" -> <<"%","3","D">>
      [] c = "+" -> <<"%","2","B">>
      [] c = "%" -> <<"%","2","5">>
      [] c = "?" -> <<"%","3","F">>
      [] c = "/" -> <<"%","2","F">>
      [] c = ":" -> <<"%","3","A">>
      [] c = "#" -> <<"%","2","3">>
      [] OTHER   -> <<"%","0","0">>

\* a builder that joins the pairs without escaping them
EncodeCharVerbatim(c) == <<c>>

EncodeChar(c) ==
    IF c \in Unreserved THEN <<c>>
    ELSE IF c = " " THEN <<"+">>
    ELSE PercentCode(c)

RECURSIVE FormUrlEncode(_)
FormUrlEncode(s) ==
    IF s = <<>> THEN <<>> ELSE EncodeChar(Head(s)) \o FormUrlEncode(Tail(s))

RECURSIVE ReadAsString(_)
ReadAsString(ps) ==
    IF ps = <<>> THEN <<>>
    ELSE FormUrlEncode(Head(ps)[1]) \o <<"=">> \o FormUrlEncode(Head(ps)[2])
         \o (IF Tail(ps) = <<>> THEN <<>> ELSE <<"&">> \o ReadAsString(Tail(ps)))

(***************************************************************************)
(* Windows.Foundation.Uri{base, relative}: throws when the base is not an  *)
(* absolute URI with a host; otherwise the relative reference is resolved  *)
(* against the base.                                                       *)
(***************************************************************************)
HostPortChars == Digits \cup Letters \cup {".", ":", "-"}

IsAbsoluteUri(base) ==
    /\ Len(base) > Len(HttpScheme)
    /\ SubSeq(base, 1, Len(HttpScheme)) = HttpScheme
    /\ \A i \in (Len(HttpScheme) + 1)..Len(base) : base[i] \in HostPortChars

NoUri == [ok |-> FALSE, abs |-> <<>>]

Uri(base, relative) ==
    IF ~IsAbsoluteUri(base) THEN NoUri
    ELSE [ok |-> TRUE,
          abs |-> base \o (IF relative # <<>> /\ Head(relative) = "/"
                           THEN relative ELSE <<"/">> \o relative)]

\* buildUri after its static is initialised
buildUri(endpointValue, relativePath, params) ==
    IF params # <<>>
    THEN Uri(endpointValue, relativePath \o <<"?">> \o ReadAsString(params))
    ELSE Uri(endpointValue, relativePath)

(***************************************************************************)
(* std::chrono::parse(fmt, tp) into a system_clock::time_point.  A time    *)
(* point is whole seconds since 1970-01-01T00:00:00 UTC plus ticks of 100  *)
(* ns.  The format is the sequence of its conversion specifiers and        *)
(* ordinary characters.                                                    *)
(***************************************************************************)
Epoch == [sec |-> 0, ticks |-> 0]

\* "%FT%T%Tz": %F, the character T, %T, %T again, the character z
ExpirationFormat == <<"%F", "T", "%T", "%T", "z">>

DigitVal(c) ==
    CASE c = "0" -> 0 [] c = "1" -> 1 [] c = "2" -> 2 [] c = "3" -> 3
      [] c = "4" -> 4 [] c = "5" -> 5 [] c = "6" -> 6 [] c = "7" -> 7
      [] c = "8" -> 8 [] c = "9" -> 9

\* %F is %Y-%m-%d and %T is %H:%M:%S
RECURSIVE ExpandFormat(_)
ExpandFormat(fmt) ==
    IF fmt = <<>> THEN <<>>
    ELSE (CASE Head(fmt) = "%F" -> <<"%Y", "-", "%m", "-", "%d">>
            [] Head(fmt) = "%T" -> <<"%H", ":", "%M", ":", "%S">>
            [] OTHER -> <<Head(fmt)>>)
         \o ExpandFormat(Tail(fmt))

\* how many digits stand at s[pos..], at most width
RECURSIVE DigitRun(_, _, _)
DigitRun(s, pos, width) ==
    IF width = 0 \/ pos > Len(s) \/ s[pos] \notin Digits THEN 0
    ELSE 1 + DigitRun(s, pos + 1, width - 1)

RECURSIVE DigitsValue(_, _, _)
DigitsValue(s, pos, n) ==
    IF n = 0 THEN 0
    ELSE DigitsValue(s, pos, n - 1) * 10 + DigitVal(s[pos + n - 1])

RECURSIVE Pow10(_)
Pow10(n) == IF n = 0 THEN 1 ELSE 10 * Pow10(n - 1)

\* The fields a format fills: the conversion specifiers, and "ticks" for
\* the fraction of %S.
NoField == -1
ParseStart ==
    [ok |-> TRUE, pos |-> 1,
     f |-> [i \in {"%Y", "%m", "%d", "%H", "%M", "%S", "ticks"} |-> NoField]]
Failed(st) == [st EXCEPT !.ok = FALSE]

\* A field parsed twice must agree with its earlier value.
Consistent(old, new) == old = NoField \/ old = new

\* <<most digits read, least value, greatest value>> of an integer specifier
IntSpec(item) ==
    CASE item = "%Y" -> <<4, 0, 9999>>
      [] item = "%m" -> <<2, 1, 12>>
      [] item = "%d" -> <<2, 1, 31>>
      [] item = "%H" -> <<2, 0, 23>>
      [] item = "%M" -> <<2, 0, 59>>
      [] item = "%S" -> <<2, 0, 59>>

StoreValue(st, item, n, v) ==
    IF n = 0 \/ v < IntSpec(item)[2] \/ v > IntSpec(item)[3]
       \/ ~Consistent(st.f[item], v)
    THEN Failed(st)
    ELSE [st EXCEPT !.pos = @ + n, !.f[item] = v]

StoreDigits(st, item, n, s) == StoreValue(st, item, n, DigitsValue(s, st.pos, n))

ParseInt(st, item, s) == StoreDigits(st, item, DigitRun(s, st.pos, IntSpec(item)[1]), s)

StoreTicks(st, advance, t) ==
    IF ~Consistent(st.f["ticks"], t) THEN Failed(st)
    ELSE [st EXCEPT !.pos = @ + advance, !.f["ticks"] = t]

StoreFraction(st, n, s) ==
    IF n = 0 THEN StoreTicks(st, 0, 0)
    ELSE StoreTicks(st, n + 1, DigitsValue(s, st.pos + 1, n) * Pow10(7 - n))

\* the fraction of %S for a time point with sub-second precision: an
\* optional decimal point and up to seven digits
ParseFraction(st, s) ==
    IF ~st.ok THEN st
    ELSE IF st.pos <= Len(s) /\ s[st.pos] = "."
    THEN StoreFraction(st, DigitRun(s, st.pos + 1, 7), s)
    ELSE StoreTicks(st, 0, 0)

ParseItem(st, item, s) ==
    CASE item = "%S" -> ParseFraction(ParseInt(st, item, s), s)
      [] item \in {"%Y", "%m", "%d", "%H", "%M"} -> ParseInt(st, item, s)
      [] OTHER ->  \* an ordinary character must be the next one of the input
           IF st.pos <= Len(s) /\ s[st.pos] = item
           THEN [st EXCEPT !.pos = @ + 1] ELSE Failed(st)

RECURSIVE ParseItems(_, _, _)
ParseItems(st, items, s) ==
    IF items = <<>> \/ ~st.ok THEN st
    ELSE ParseItems(ParseItem(st, Head(items), s), Tail(items), s)

IsLeap(y) == (y % 4 = 0 /\ y % 100 # 0) \/ y % 400 = 0
DaysInMonth(y, m) ==
    IF m = 2 THEN (IF IsLeap(y) THEN 29 ELSE 28)
    ELSE IF m \in {4, 6, 9, 11} THEN 30 ELSE 31

\* days from 1970-01-01 to the civil date y-m-d; the year counts from March
DayOfEra(yoe, doy) == yoe * 365 + yoe \div 4 - yoe \div 100 + doy
DaysFromMarchYear(yy, m, d) ==
    (yy \div 400) * 146097
    + DayOfEra(yy % 400, (153 * ((m + 9) % 12) + 2) \div 5 + d - 1)
    - 719468
DaysFromCivil(y, m, d) == DaysFromMarchYear(IF m <= 2 THEN y - 1 ELSE y, m, d)

Unparsed(v) == IF v = NoField THEN 0 ELSE v

\* the time point of the parsed fields, when they give a valid date
TimePointOf(f, tp) ==
    IF f["%Y"] # NoField /\ f["%m"] # NoField /\ f["%d"] # NoField
       /\ f["%d"] <= DaysInMonth(f["%Y"], f["%m"])
    THEN [sec |-> DaysFromCivil(f["%Y"], f["%m"], f["%d"]) * 86400
                  + Unparsed(f["%H"]) * 3600 + Unparsed(f["%M"]) * 60
                  + Unparsed(f["%S"]),
          ticks |-> Unparsed(f["ticks"])]
    ELSE tp

ParsedInto(st, tp) == IF st.ok THEN TimePointOf(st.f, tp) ELSE tp

\* a time point that is not value-initialised before the parse
ChronoParseIndeterminate(fmt, s, tp) ==
    ParsedInto(ParseItems(ParseStart, ExpandFormat(fmt), s), [sec |-> -1, ticks |-> 0])

\* ss >> std::chrono::parse(fmt, tp): tp is written only when the whole
\* format matched and gave a valid date; otherwise failbit is set and tp
\* keeps its value.
ChronoParse(fmt, s, tp) ==
    ParsedInto(ParseItems(ParseStart, ExpandFormat(fmt), s), tp)

(***************************************************************************)
(* Windows.Data.Json values: a record tagged with its type.                *)
(***************************************************************************)
JStr(s) == [t |-> "string", v |-> s]
JBool(b) == [t |-> "boolean", v |-> b]
JNum(n) == [t |-> "number", v |-> n]
JArr(a) == [t |-> "array", v |-> a]
JObj(o) == [t |-> "object", v |-> o]

\* obj.GetNamedString / GetNamedBoolean / GetNamedArray throw when the name
\* is missing or its value has another type.
HasNamed(obj, name, type) == name \in DOMAIN obj.v /\ obj.v[name].t = type

NoProduct == [id |-> <<>>, title |-> <<>>, description |-> <<>>, kind |-> <<>>,
              expiration |-> Epoch, inUserCollection |-> FALSE]

fromJson(obj) ==
    IF /\ HasNamed(obj, "ExpirationDate", "string")
       /\ HasNamed(obj, "StoreID", "string")
       /\ HasNamed(obj, "Title", "string")
       /\ HasNamed(obj, "Description", "string")
       /\ HasNamed(obj, "ProductKind", "string")
       /\ HasNamed(obj, "IsInUserCollection", "boolean")
    THEN [ok |-> TRUE,
          product |-> [id |-> obj.v.StoreID.v,
                       title |-> obj.v.Title.v,
                       description |-> obj.v.Description.v,
                       kind |-> obj.v.ProductKind.v,
                       expiration |-> ChronoParse(ExpirationFormat,
                                                  obj.v.ExpirationDate.v, Epoch),
                       inUserCollection |-> obj.v.IsInUserCollection.v]]
    ELSE [ok |-> FALSE, product |-> NoProduct]

\* the loop of GetProducts over the products array: the first element
\* that is no object, or that fromJson rejects, throws and the vector built
\* so far is lost with the frame
RECURSIVE DecodeProducts(_, _)
EmplaceBack(p, rest, acc) ==
    IF p.ok THEN DecodeProducts(rest, Append(acc, p.product))
    ELSE [ok |-> FALSE, products |-> <<>>]

DecodeProducts(arr, acc) ==
    IF arr = <<>> THEN [ok |-> TRUE, products |-> acc]
    ELSE IF Head(arr).t # "object" THEN [ok |-> FALSE, products |-> <<>>]
    ELSE EmplaceBack(fromJson(Head(arr)), Tail(arr), acc)

\* the loop of AllLocallyAuthenticatedUserHashes: user.GetString() throws
\* on an element that is no string
RECURSIVE DecodeUsers(_, _)
DecodeUsers(arr, acc) ==
    IF arr = <<>> THEN [ok |-> TRUE, users |-> acc]
    ELSE IF Head(arr).t # "string" THEN [ok |-> FALSE, users |-> <<>>]
    ELSE DecodeUsers(Tail(arr), Append(acc, Head(arr).v))

(***************************************************************************)
(* What the mock server may answer.  A body is a text that is or is not    *)
(* JSON, with the value it denotes.                                        *)
(***************************************************************************)
DateZ == <<"2","0","2","5","-","0","1","-","0","1","T","0","0",":","0","0",":","0","0","Z">>
DateFractionZ == <<"2","0","2","5","-","0","1","-","0","1","T","0","0",":","0","0",":","0","0",".","1","2","3","4","5","6","Z">>
DateMalformed == <<"n","o","t","-","a","-","d","a","t","e">>
DateTwoTimes == <<"2","0","2","5","-","0","1","-","0","1","T","1","0",":","2","0",":","3","0","1","0",":","2","0",":","3","0","z">>

ProductJson(id, date, owned) ==
    JObj([StoreID |-> JStr(id), Title |-> JStr(<<"T">> \o id),
          Description |-> JStr(<<"D">> \o id), ProductKind |-> JStr(<<"g","a","m","e">>),
          ExpirationDate |-> JStr(date), IsInUserCollection |-> JBool(owned)])

MistypedProductJson ==
    JObj([StoreID |-> JStr(<<"9">>), Title |-> JNum(7),
          Description |-> JStr(<<"D">>), ProductKind |-> JStr(<<"g","a","m","e">>),
          ExpirationDate |-> JStr(DateZ), IsInUserCollection |-> JBool(TRUE)])

Json(value) == [isJson |-> TRUE, value |-> value]
NotJson == [isJson |-> FALSE, value |-> JObj(<<>>)]

Bodies ==
    << NotJson,
       Json(JArr(<<>>)),
       Json(JObj(<<>>)),
       Json(JObj([products |-> JArr(<<>>)])),
       Json(JObj([products |-> JArr(<<ProductJson(<<"A">>, DateZ, TRUE)>>)])),
       Json(JObj([products |-> JArr(<<ProductJson(<<"A">>, DateMalformed, TRUE),
                                      ProductJson(<<"B">>, DateTwoTimes, FALSE)>>)])),
       Json(JObj([products |-> JArr(<<ProductJson(<<"A">>, DateFractionZ, FALSE)>>)])),
       Json(JObj([products |-> JArr(<<ProductJson(<<"A">>, DateTwoTimes, TRUE),
                                      MistypedProductJson>>)])),
       Json(JObj([products |-> JStr(<<"x">>)])),
       Json(JObj([users |-> JArr(<<JStr(<<"h","1">>), JStr(<<"h","2">>)>>)])),
       Json(JObj([users |-> JArr(<<JStr(<<"h","1">>), JNum(2)>>)])),
       Json(JObj([jwt |-> JStr(<<"j","w","t">>)])),
       Json(JObj([jwt |-> JNum(5)])) >>

\* JsonObject::Parse(contents) throws unless the text is a JSON object
JsonObjectParse(b) == [ok |-> b.isJson /\ b.value.t = "object", obj |-> b.value]

(***************************************************************************)
(* The process.                                                            *)
(***************************************************************************)
Threads == {1, 2}

VARIABLES
    env,            \* UP4W_MS_STORE_MOCK_ENDPOINT in the process environment
    endpointState,  \* buildUri's static endpoint: "uninit", "initialising", "done"
    endpoint,       \* its value
    endpointEnv,    \* history: the environment value its initialiser read
    endpointInits,  \* history: how often its initialiser ran
    clientState,    \* call's static httpClient: "uninit", "initialising", "done"
    httpClient,     \* the handle it holds (0: none)
    clientInits,    \* history: how often its constructor ran
    pc,             \* where each thread is in its query operation
    op,             \* the operation a thread runs, with its arguments
    relativePath,   \* call's relativePath
    params,         \* call's params, in iteration order
    uri,            \* the Uri buildUri returned
    uriEnv,         \* history: the environment value when the Uri was built
    usedClient,     \* the handle GetStringAsync was called on (0: none)
    gets,           \* HTTP GETs issued by the thread's current operation
    body,           \* index in Bodies of the text received (0: none)
    result,         \* what the operation hands to its caller
    calls           \* query operations started so far

vars == <<env, endpointState, endpoint, endpointEnv, endpointInits, clientState,
          httpClient, clientInits, pc, op, relativePath, params, uri, uriEnv,
          usedClient, gets, body, result, calls>>

statics == <<endpointState, endpoint, endpointEnv, endpointInits, clientState,
             httpClient, clientInits>>

NoOp == [name |-> "none", kinds |-> <<>>, ids |-> <<>>, token |-> <<>>, userId |-> <<>>]
NoResult == [status |-> "none", products |-> <<>>, users |-> <<>>, jwt |-> <<>>]
Thrown == [status |-> "error", products |-> <<>>, users |-> <<>>, jwt |-> <<>>]

InitWith(envs) ==
    /\ env \in envs
    /\ endpointState = "uninit" /\ endpoint = <<>> /\ endpointEnv = Unset
    /\ endpointInits = 0
    /\ clientState = "uninit" /\ httpClient = 0 /\ clientInits = 0
    /\ pc = [t \in Threads |-> "idle"]
    /\ op = [t \in Threads |-> NoOp]
    /\ relativePath = [t \in Threads |-> <<>>]
    /\ params = [t \in Threads |-> <<>>]
    /\ uri = [t \in Threads |-> NoUri]
    /\ uriEnv = [t \in Threads |-> Unset]
    /\ usedClient = [t \in Threads |-> 0]
    /\ gets = [t \in Threads |-> 0]
    /\ body = [t \in Threads |-> 0]
    /\ result = [t \in Threads |-> NoResult]
    /\ calls = 0

Init == InitWith(EnvValues)

\* a failed assert aborts the process: no thread takes another step
Aborted == \E t \in Threads : pc[t] = "aborted"

\* the environment is changed from outside the client
SetEnvironmentVariable(v) ==
    /\ ~Aborted
    /\ v # env
    /\ env' = v
    /\ UNCHANGED <<statics, pc, op, relativePath, params, uri, uriEnv, usedClient,
                   gets, body, result, calls>>

\* the asserts compiled out
GetProductsAssertsOff(kinds, ids) == TRUE

\* the asserts at the head of GetProducts and of GenerateUserJwt
GetProductsAsserts(kinds, ids) == kinds # <<>> /\ ids # <<>>
GenerateUserJwtAsserts(token) == token # <<>>

Enter(t, o, path, ps) ==
    /\ op' = [op EXCEPT ![t] = o]
    /\ relativePath' = [relativePath EXCEPT ![t] = path]
    /\ params' = [params EXCEPT ![t] = ps]
    /\ pc' = [pc EXCEPT ![t] = "call"]
    /\ calls' = calls + 1
    /\ UNCHANGED <<env, statics, uri, uriEnv, usedClient, gets, body, result>>

Abort(t, o) ==
    /\ op' = [op EXCEPT ![t] = o]
    /\ pc' = [pc EXCEPT ![t] = "aborted"]
    /\ calls' = calls + 1
    /\ UNCHANGED <<env, statics, relativePath, params, uri, uriEnv, usedClient,
                   gets, body, result>>

GetProducts(t, kinds, ids) ==
    /\ ~Aborted /\ pc[t] = "idle" /\ calls < MaxCalls
    /\ LET o == [NoOp EXCEPT !.name = "GetProducts", !.kinds = kinds, !.ids = ids]
       IN  IF GetProductsAsserts(kinds, ids)
           THEN \E ps \in GetProductsParams(kinds, ids) : Enter(t, o, ProductsPath, ps)
           ELSE Abort(t, o)

AllLocallyAuthenticatedUserHashes(t) ==
    /\ ~Aborted /\ pc[t] = "idle" /\ calls < MaxCalls
    /\ Enter(t, [NoOp EXCEPT !.name = "AllLocallyAuthenticatedUserHashes"],
             UsersPath, <<>>)

GenerateUserJwt(t, token, userId) ==
    /\ ~Aborted /\ pc[t] = "idle" /\ calls < MaxCalls
    /\ LET o == [NoOp EXCEPT !.name = "GenerateUserJwt", !.token = token,
                             !.userId = userId]
       IN  IF GenerateUserJwtAsserts(token)
           THEN \E ps \in GenerateUserJwtParams(token, userId) : Enter(t, o, JwtPath, ps)
           ELSE Abort(t, o)

(***************************************************************************)
(* A function-local static: the first thread to reach the declaration runs *)
(* the initialiser; a thread that reaches it meanwhile waits until the     *)
(* initialisation is complete.                                             *)
(***************************************************************************)
\* a local that is not static: initialised on every call
MustInitialiseEveryCall(state) == TRUE
\* a static whose initialisation is not guarded against other threads
MayPassUnguarded(state) == TRUE

MustInitialise(state) == state = "uninit"
MayPass(state) == state = "done"

\* call(): static HttpClient httpClient{};
CallEnter(t) ==
    /\ ~Aborted /\ pc[t] = "call"
    /\ \/ /\ MustInitialise(clientState)
          /\ clientState' = "initialising"
          /\ pc' = [pc EXCEPT ![t] = "newClient"]
       \/ /\ ~MustInitialise(clientState) /\ MayPass(clientState)
          /\ clientState' = clientState
          /\ pc' = [pc EXCEPT ![t] = "buildUri"]
    /\ UNCHANGED <<env, endpointState, endpoint, endpointEnv, endpointInits,
                   httpClient, clientInits, op, relativePath, params, uri, uriEnv,
                   usedClient, gets, body, result, calls>>

NewHttpClient(t) ==
    /\ ~Aborted /\ pc[t] = "newClient"
    /\ httpClient' = clientInits + 1
    /\ clientInits' = clientInits + 1
    /\ clientState' = "done"
    /\ pc' = [pc EXCEPT ![t] = "buildUri"]
    /\ UNCHANGED <<env, endpointState, endpoint, endpointEnv, endpointInits, op,
                   relativePath, params, uri, uriEnv, usedClient, gets, body,
                   result, calls>>

\* buildUri(): static hstring endpoint = L"http://" + readStoreMockEndpoint();
BuildUriEnter(t) ==
    /\ ~Aborted /\ pc[t] = "buildUri"
    /\ \/ /\ MustInitialise(endpointState)
          /\ endpointState' = "initialising"
          /\ pc' = [pc EXCEPT ![t] = "readEndpoint"]
       \/ /\ ~MustInitialise(endpointState) /\ MayPass(endpointState)
          /\ endpointState' = endpointState
          /\ pc' = [pc EXCEPT ![t] = "makeUri"]
    /\ UNCHANGED <<env, endpoint, endpointEnv, endpointInits, clientState,
                   httpClient, clientInits, op, relativePath, params, uri, uriEnv,
                   usedClient, gets, body, result, calls>>

ReadStoreMockEndpoint(t) ==
    /\ ~Aborted /\ pc[t] = "readEndpoint"
    /\ \E uninit \in UninitialisedBuffers :
           endpoint' = EndpointInitialiser(env, uninit)
    /\ endpointEnv' = env
    /\ endpointInits' = endpointInits + 1
    /\ endpointState' = "done"
    /\ pc' = [pc EXCEPT ![t] = "makeUri"]
    /\ UNCHANGED <<env, clientState, httpClient, clientInits, op, relativePath,
                   params, uri, uriEnv, usedClient, gets, body, result, calls>>

\* the rest of buildUri: the Uri constructor throws on an invalid base
UriBuilt(t, u) ==
    /\ uri' = [uri EXCEPT ![t] = u]
    /\ uriEnv' = [uriEnv EXCEPT ![t] = env]
    /\ pc' = [pc EXCEPT ![t] = IF u.ok THEN "get" ELSE "failed"]
    /\ result' = [result EXCEPT ![t] = IF u.ok THEN NoResult ELSE Thrown]

BuildUri(t) ==
    /\ ~Aborted /\ pc[t] = "makeUri"
    /\ UriBuilt(t, buildUri(endpoint, relativePath[t], params[t]))
    /\ UNCHANGED <<env, statics, op, relativePath, params, usedClient, gets, body,
                   calls>>

\* co_await httpClient.GetStringAsync(uri): the round trip fails, or a body
\* arrives
GetStringAsync(t, answers) ==
    /\ ~Aborted /\ pc[t] = "get"
    /\ gets' = [gets EXCEPT ![t] = gets[t] + 1]
    /\ usedClient' = [usedClient EXCEPT ![t] = httpClient]
    /\ \/ /\ pc' = [pc EXCEPT ![t] = "failed"]
          /\ result' = [result EXCEPT ![t] = Thrown]
          /\ body' = body
       \/ \E i \in answers :
              /\ body' = [body EXCEPT ![t] = i]
              /\ pc' = [pc EXCEPT ![t] = "parse"]
              /\ result' = result
    /\ UNCHANGED <<env, statics, op, relativePath, params, uri, uriEnv, calls>>

\* co_return JsonObject::Parse(contents): the coroutine ends and its frame
\* (relativePath, params, uri) is gone
Parse(t) ==
    /\ ~Aborted /\ pc[t] = "parse"
    /\ pc' = [pc EXCEPT ![t] = IF JsonObjectParse(Bodies[body[t]]).ok
                                THEN "decode" ELSE "failed"]
    /\ result' = [result EXCEPT ![t] = IF pc'[t] = "decode" THEN NoResult ELSE Thrown]
    /\ relativePath' = [relativePath EXCEPT ![t] = <<>>]
    /\ params' = [params EXCEPT ![t] = <<>>]
    /\ uri' = [uri EXCEPT ![t] = NoUri]
    /\ uriEnv' = [uriEnv EXCEPT ![t] = Unset]
    /\ UNCHANGED <<env, statics, op, usedClient, gets, body, calls>>

\* what each operation does with the JsonObject call() returned
ProductsResult(d) ==
    IF d.ok THEN [NoResult EXCEPT !.status = "ok", !.products = d.products] ELSE Thrown
UsersResult(d) ==
    IF d.ok THEN [NoResult EXCEPT !.status = "ok", !.users = d.users] ELSE Thrown

Decoded(name, obj) ==
    CASE name = "GetProducts" ->
           IF ~HasNamed(obj, "products", "array") THEN Thrown
           ELSE ProductsResult(DecodeProducts(obj.v.products.v, <<>>))
      [] name = "AllLocallyAuthenticatedUserHashes" ->
           IF ~HasNamed(obj, "users", "array") THEN Thrown
           ELSE UsersResult(DecodeUsers(obj.v.users.v, <<>>))
      [] name = "GenerateUserJwt" ->
           IF ~HasNamed(obj, "jwt", "string") THEN Thrown
           ELSE [NoResult EXCEPT !.status = "ok", !.jwt = obj.v.jwt.v]

Returning(t, r) ==
    /\ result' = [result EXCEPT ![t] = r]
    /\ pc' = [pc EXCEPT ![t] = IF r.status = "ok" THEN "done" ELSE "failed"]

Decode(t) ==
    /\ ~Aborted /\ pc[t] = "decode"
    /\ Returning(t, Decoded(op[t].name, Bodies[body[t]].value))
    /\ UNCHANGED <<env, statics, op, relativePath, params, uri, uriEnv, usedClient,
                   gets, body, calls>>

\* the operation returns to (or throws into) its caller
Return(t) ==
    /\ ~Aborted /\ pc[t] \in {"done", "failed"}
    /\ pc' = [pc EXCEPT ![t] = "idle"]
    /\ op' = [op EXCEPT ![t] = NoOp]
    /\ relativePath' = [relativePath EXCEPT ![t] = <<>>]
    /\ params' = [params EXCEPT ![t] = <<>>]
    /\ uri' = [uri EXCEPT ![t] = NoUri]
    /\ uriEnv' = [uriEnv EXCEPT ![t] = Unset]
    /\ usedClient' = [usedClient EXCEPT ![t] = 0]
    /\ gets' = [gets EXCEPT ![t] = 0]
    /\ body' = [body EXCEPT ![t] = 0]
    /\ result' = [result EXCEPT ![t] = NoResult]
    /\ UNCHANGED <<env, statics, calls>>

(***************************************************************************)
(* Arguments the callers pass.                                             *)
(***************************************************************************)
RECURSIVE SeqsUpTo(_, _)
SeqsUpTo(S, n) ==
    IF n = 0 THEN {<<>>}
    ELSE LET shorter == SeqsUpTo(S, n - 1)
         IN  shorter \cup { Append(s, x) : s \in shorter, x \in S }

AllBodies == 1..Len(Bodies)

\* one caller at a time; every environment value and every answer, short
\* arguments
Callers == {1}
Kinds == SeqsUpTo({ <<"g","a","m","e">> }, MaxLen)
Ids == SeqsUpTo({ <<"9","N","B","L","G","G","H","4","R","3","1","5">> }, MaxLen)
Tokens == { <<>>, <<"a","b","c">> }
UserIds == { <<>>, <<"u","1">> }

Next ==
    \/ \E v \in EnvValues : SetEnvironmentVariable(v)
    \/ \E t \in Callers :
         \/ \E kinds \in Kinds, ids \in Ids : GetProducts(t, kinds, ids)
         \/ AllLocallyAuthenticatedUserHashes(t)
         \/ \E token \in Tokens, userId \in UserIds : GenerateUserJwt(t, token, userId)
         \/ CallEnter(t)
         \/ NewHttpClient(t)
         \/ BuildUriEnter(t)
         \/ ReadStoreMockEndpoint(t)
         \/ BuildUri(t)
         \/ GetStringAsync(t, AllBodies)
         \/ Parse(t)
         \/ Decode(t)
         \/ Return(t)

Spec == Init /\ [][Next]_vars

\* one caller at a time; arguments with repeated values and with characters
\* that form encoding escapes, against a server at the default or at the
\* configured endpoint
RequestEnvValues == {Unset, SetTo(ConfiguredHostPort)}
RequestAnswers == {1, 4}
RequestKinds == SeqsUpTo({ <<"g","a","m","e">>, <<"a"," ","&">> }, MaxLen)
RequestIds == SeqsUpTo({ <<"x","=","1">> }, MaxLen)
RequestTokens == { <<>>, <<"a","b","c">>, <<"t","&","a","=","b">> }
RequestUserIds == { <<>>, <<"u","1">>, <<"u","&","=">> }

InitRequests == InitWith(RequestEnvValues)

NextRequests ==
    \/ \E v \in RequestEnvValues : SetEnvironmentVariable(v)
    \/ \E t \in Callers :
         \/ \E kinds \in RequestKinds, ids \in RequestIds : GetProducts(t, kinds, ids)
         \/ AllLocallyAuthenticatedUserHashes(t)
         \/ \E token \in RequestTokens, userId \in RequestUserIds :
                GenerateUserJwt(t, token, userId)
         \/ CallEnter(t)
         \/ NewHttpClient(t)
         \/ BuildUriEnter(t)
         \/ ReadStoreMockEndpoint(t)
         \/ BuildUri(t)
         \/ GetStringAsync(t, RequestAnswers)
         \/ Parse(t)
         \/ Decode(t)
         \/ Return(t)

SpecRequests == InitRequests /\ [][NextRequests]_vars

\* two threads call concurrently
ThreadEnvValues == {Unset, SetTo(ConfiguredHostPort), SetTo(Oversized)}
ThreadAnswers == {1, 10}
ThreadKinds == { << <<"g","a","m","e">> >> }
ThreadIds == { << <<"9","N","B","L","G","G","H","4","R","3","1","5">> >> }
ThreadTokens == { <<"a","b","c">> }
ThreadUserIds == { <<>> }

InitThreads == InitWith(ThreadEnvValues)

NextThreads ==
    \/ \E v \in ThreadEnvValues : SetEnvironmentVariable(v)
    \/ \E t \in Threads :
         \/ \E kinds \in ThreadKinds, ids \in ThreadIds : GetProducts(t, kinds, ids)
         \/ AllLocallyAuthenticatedUserHashes(t)
         \/ \E token \in ThreadTokens, userId \in ThreadUserIds :
                GenerateUserJwt(t, token, userId)
         \/ CallEnter(t)
         \/ NewHttpClient(t)
         \/ BuildUriEnter(t)
         \/ ReadStoreMockEndpoint(t)
         \/ BuildUri(t)
         \/ GetStringAsync(t, ThreadAnswers)
         \/ Parse(t)
         \/ Decode(t)
         \/ Return(t)

SpecThreads == InitThreads /\ [][NextThreads]_vars

(***************************************************************************)
(* The request as the server reads it: the path and the pairs of the query *)
(* string of an absolute URI, decoded.                                     *)
(***************************************************************************)
\* the first index of c in s, 0 when there is none
IndexOf(s, c) ==
    IF \E i \in 1..Len(s) : s[i] = c
    THEN CHOOSE i \in 1..Len(s) : s[i] = c /\ \A j \in 1..(i - 1) : s[j] # c
    ELSE 0

Before(s, i) == IF i = 0 THEN s ELSE SubSeq(s, 1, i - 1)
After(s, i) == IF i = 0 THEN <<>> ELSE SubSeq(s, i + 1, Len(s))

RECURSIVE Split(_, _)
SplitAt(s, i, sep) ==
    IF i = 0 THEN <<s>> ELSE <<Before(s, i)>> \o Split(After(s, i), sep)
Split(s, sep) == SplitAt(s, IndexOf(s, sep), sep)

Unescaped(hi, lo) ==
    CASE <<hi, lo>> = <<"2","6">> -> "&"
      [] <<hi, lo>> = <<"3","D">> -> "="
      [] <<hi, lo>> = <<"2","B">> -> "+"
      [] <<hi, lo>> = <<"2","5">> -> "%"
      [] <<hi, lo>> = <<"3","F">> -> "?"
      [] <<hi, lo>> = <<"2","F">> -> "/"
      [] <<hi, lo>> = <<"3","A">> -> ":"
      [] <<hi, lo>> = <<"2","3">> -> "#"
      [] OTHER -> "?"

RECURSIVE FormUrlDecode(_)
FormUrlDecode(s) ==
    IF s = <<>> THEN <<>>
    ELSE IF Head(s) = "+" THEN <<" ">> \o FormUrlDecode(Tail(s))
    ELSE IF Head(s) = "%" /\ Len(s) >= 3
         THEN <<Unescaped(s[2], s[3])>> \o FormUrlDecode(SubSeq(s, 4, Len(s)))
    ELSE <<Head(s)>> \o FormUrlDecode(Tail(s))

\* what follows scheme and authority: path and query
TargetOf(abs) ==
    SubSeq(abs, Len(HttpScheme) + IndexOf(After(abs, Len(HttpScheme)), "/"), Len(abs))
AuthorityOf(abs) ==
    SubSeq(abs, 1, Len(HttpScheme) + IndexOf(After(abs, Len(HttpScheme)), "/") - 1)
PathOf(abs) == Before(TargetOf(abs), IndexOf(TargetOf(abs), "?"))
QueryOf(abs) == After(TargetOf(abs), IndexOf(TargetOf(abs), "?"))

PairOf(text) ==
    <<FormUrlDecode(Before(text, IndexOf(text, "="))),
      FormUrlDecode(After(text, IndexOf(text, "=")))>>
PairsIn(texts) == [i \in 1..Len(texts) |-> PairOf(texts[i])]
QueryPairs(abs) == IF QueryOf(abs) = <<>> THEN <<>> ELSE PairsIn(Split(QueryOf(abs), "&"))

Count(ps, p) == Cardinality({ i \in 1..Len(ps) : ps[i] = p })
CountKey(ps, k) == Cardinality({ i \in 1..Len(ps) : ps[i][1] = k })
KeysOf(ps) == { ps[i][1] : i \in 1..Len(ps) }
SameBag(ps, qs) ==
    /\ Len(ps) = Len(qs)
    /\ \A i \in 1..Len(qs) : Count(ps, qs[i]) = Count(qs, qs[i])

\* a thread is about to send, or has just built, its request
Requesting(t) == pc[t] = "get" /\ uri[t].ok

\* the pairs an operation adds to its parameter set, in the order it adds them
AddedPairs(o) ==
    CASE o.name = "GetProducts" -> PairsOf(KindsKey, o.kinds) \o PairsOf(IdsKey, o.ids)
      [] o.name = "GenerateUserJwt" ->
           << <<ServiceTicketKey, o.token>> >>
           \o (IF o.userId = <<>> THEN <<>> ELSE << <<PublisherUserIdKey, o.userId>> >>)
      [] OTHER -> <<>>

(***************************************************************************)
(* C1.  The endpoint is resolved at most once: read with the variable      *)
(* unset it is http://127.0.0.1:9, read with 203.0.113.5:8080 it is        *)
(* http://203.0.113.5:8080, and every request built afterwards, by any of  *)
(* the three operations, goes to that same value whatever the environment  *)
(* holds by then.                                                          *)
(***************************************************************************)
C1_EndpointResolvedOnce ==
    /\ endpointInits <= 1
    /\ endpointState = "done" =>
         /\ endpointInits = 1
         /\ endpointEnv = Unset => endpoint = HttpScheme \o DefaultHostPort
         /\ endpointEnv = SetTo(ConfiguredHostPort) =>
                endpoint = HttpScheme \o ConfiguredHostPort
    /\ \A t \in Threads :
         uri[t].ok => endpointState = "done" /\ AuthorityOf(uri[t].abs) = endpoint

\* a second operation builds its request after the environment was changed
C1_Witness ==
    \E t \in Threads :
        /\ Requesting(t) /\ calls = 2
        /\ endpointEnv = SetTo(ConfiguredHostPort)
        /\ uriEnv[t] = Unset /\ env = Unset
        /\ AuthorityOf(uri[t].abs) = HttpScheme \o ConfiguredHostPort

(***************************************************************************)
(* C2.  Resolution yields the configured value or the default: whenever    *)
(* the variable is absent, malformed or longer than the 20-character       *)
(* buffer, the endpoint is exactly http://127.0.0.1:9.                     *)
(***************************************************************************)
WellFormedHostPort(v) ==
    /\ IndexOf(v, ":") > 1 /\ IndexOf(v, ":") < Len(v)
    /\ \A i \in 1..Len(v) : v[i] \in HostPortChars
    /\ \A i \in (IndexOf(v, ":") + 1)..Len(v) : v[i] \in Digits

ClaimedEndpoint(e) ==
    IF e.set /\ WellFormedHostPort(e.val) /\ Len(e.val) <= endpointSize
    THEN HttpScheme \o e.val
    ELSE HttpScheme \o DefaultHostPort

C2_FallsBackToDefault ==
    endpointState = "done" => endpoint = ClaimedEndpoint(endpointEnv)

(***************************************************************************)
(* C3.  For non-empty kinds and ids, repeated values included, the URL of  *)
(* GetProducts has the path /products and a query string of exactly        *)
(* Len(kinds) pairs with key kinds, Len(ids) pairs with key ids, and no    *)
(* other key.                                                              *)
(***************************************************************************)
C3_OnePairPerElement ==
    \A t \in Threads :
        (Requesting(t) /\ op[t].name = "GetProducts") =>
            /\ PathOf(uri[t].abs) = ProductsPath
            /\ CountKey(QueryPairs(uri[t].abs), KindsKey) = Len(op[t].kinds)
            /\ CountKey(QueryPairs(uri[t].abs), IdsKey) = Len(op[t].ids)
            /\ KeysOf(QueryPairs(uri[t].abs)) = {KindsKey, IdsKey}

\* a request with a repeated kind whose text needs escaping
C3_Witness ==
    \E t \in Threads :
        /\ Requesting(t) /\ op[t].name = "GetProducts"
        /\ op[t].kinds = << <<"a"," ","&">>, <<"a"," ","&">> >>
        /\ Len(op[t].ids) = 2

ViolatesPrecondition(o) ==
    \/ o.name = "GetProducts" /\ (o.kinds = <<>> \/ o.ids = <<>>)
    \/ o.name = "GenerateUserJwt" /\ o.token = <<>>

C5_FailsFast ==
    \A t \in Threads :
        ViolatesPrecondition(op[t]) =>
            /\ pc[t] = "aborted"
            /\ uri[t] = NoUri /\ params[t] = <<>> /\ relativePath[t] = <<>>
            /\ gets[t] = 0 /\ usedClient[t] = 0 /\ body[t] = 0

\* GetProducts was called with ids and no kinds, after an earlier operation
C5_Witness ==
    \E t \in Threads :
        /\ pc[t] = "aborted" /\ op[t].name = "GetProducts"
        /\ op[t].kinds = <<>> /\ op[t].ids # <<>>
        /\ calls = 2

(***************************************************************************)
(* C6.  The request of GenerateUserJwt holds exactly one serviceticket     *)
(* pair, whose value is the token, and a publisheruserid pair, with value  *)
(* userId, if and only if userId is not empty.                             *)
(***************************************************************************)
C6_JwtPairs ==
    \A t \in Threads :
        (Requesting(t) /\ op[t].name = "GenerateUserJwt") =>
            /\ CountKey(QueryPairs(uri[t].abs), ServiceTicketKey) = 1
            /\ Count(QueryPairs(uri[t].abs), <<ServiceTicketKey, op[t].token>>) = 1
            /\ CountKey(QueryPairs(uri[t].abs), PublisherUserIdKey)
                 = (IF op[t].userId = <<>> THEN 0 ELSE 1)
            /\ op[t].userId # <<>> =>
                 Count(QueryPairs(uri[t].abs), <<PublisherUserIdKey, op[t].userId>>) = 1
            /\ KeysOf(QueryPairs(uri[t].abs)) \subseteq {ServiceTicketKey, PublisherUserIdKey}

\* a request for a token that needs escaping and no user id
C6_Witness ==
    \E t \in Threads :
        /\ Requesting(t) /\ op[t].name = "GenerateUserJwt"
        /\ op[t].token = <<"t","&","a","=","b">> /\ op[t].userId = <<>>

(***************************************************************************)
(* Timestamps of the form YYYY-MM-DDTHH:MM:SS[.ffffff]Z.                   *)
(***************************************************************************)
AllDigits(s, from, to) == \A i \in from..to : s[i] \in Digits

\* the text begins YYYY-MM-DDTHH:MM:SS
HasDateTime(s) ==
    /\ Len(s) >= 19
    /\ AllDigits(s, 1, 4) /\ s[5] = "-" /\ AllDigits(s, 6, 7) /\ s[8] = "-"
    /\ AllDigits(s, 9, 10) /\ s[11] = "T" /\ AllDigits(s, 12, 13) /\ s[14] = ":"
    /\ AllDigits(s, 15, 16) /\ s[17] = ":" /\ AllDigits(s, 18, 19)

\* the products array of the body a thread received, when every element of
\* it is an object with the six fields rightly typed
ProductsReceived(t) == Bodies[body[t]].value.v.products.v

WellTypedProduct(p) ==
    /\ p.t = "object"
    /\ \A n \in {"ExpirationDate", "StoreID", "Title", "Description", "ProductKind"} :
           HasNamed(p, n, "string")
    /\ HasNamed(p, "IsInUserCollection", "boolean")

ReceivedProducts(t) ==
    /\ op[t].name = "GetProducts" /\ pc[t] \in {"done", "failed"} /\ body[t] # 0
    /\ JsonObjectParse(Bodies[body[t]]).ok
    /\ HasNamed(Bodies[body[t]].value, "products", "array")
    /\ \A i \in 1..Len(ProductsReceived(t)) : WellTypedProduct(ProductsReceived(t)[i])

C8_WellFormedDateIsParsed ==
    \A t \in Threads :
        (ReceivedProducts(t) /\ Len(ProductsReceived(t)) = 1
         /\ ProductsReceived(t)[1].v.ExpirationDate.v = DateZ) =>
            /\ pc[t] = "done"
            /\ Len(result[t].products) = 1
            /\ result[t].products[1].expiration
                 = [sec |-> DaysFromCivil(2025, 1, 1) * 86400, ticks |-> 0]

(***************************************************************************)
(* C9.  An operation whose preconditions hold issues exactly one GET,      *)
(* after its URI was built and before the body is parsed and decoded; a    *)
(* failure of the round trip or of the decoding is not retried and fails   *)
(* the whole operation, which then hands no records to its caller.         *)
(***************************************************************************)
C9_ExactlyOneGet ==
    \A t \in Threads :
        /\ gets[t] <= 1
        /\ pc[t] \in {"done", "failed"} => gets[t] = 1
        /\ pc[t] \in {"call", "newClient", "buildUri", "readEndpoint", "makeUri", "get"}
             => gets[t] = 0 /\ body[t] = 0
        /\ pc[t] = "get" => uri[t].ok
        /\ pc[t] \in {"parse", "decode"} => gets[t] = 1 /\ body[t] # 0
        /\ pc[t] = "failed" => result[t] = Thrown
        /\ pc[t] = "done" => result[t].status = "ok"

(***************************************************************************)
(* C10.  Under any interleaving of concurrent operations the endpoint and  *)
(* the client handle are each initialised exactly once: no thread passes   *)
(* the declaration of either before its initialisation is complete, no     *)
(* second initialisation happens, and all threads use the same endpoint    *)
(* and the same handle.                                                    *)
(***************************************************************************)
PastClient == {"buildUri", "readEndpoint", "makeUri", "get"}
PastEndpoint == {"makeUri", "get"}

C10_InitialisedOnce ==
    /\ endpointInits <= 1 /\ clientInits <= 1
    /\ \A t \in Threads :
         /\ pc[t] \in PastClient => clientState = "done" /\ httpClient = 1
         /\ pc[t] \in PastEndpoint => endpointState = "done" /\ endpointInits = 1
         /\ usedClient[t] # 0 => usedClient[t] = httpClient
         /\ pc[t] \in {"parse", "decode", "done"} => usedClient[t] = 1
         /\ uri[t].ok => AuthorityOf(uri[t].abs) = endpoint
    /\ \A t, u \in Threads :
         (uri[t].ok /\ uri[u].ok) => AuthorityOf(uri[t].abs) = AuthorityOf(uri[u].abs)

\* both threads hold a request at once, built under different environments
C10_Witness ==
    /\ \A t \in Threads : Requesting(t)
    /\ uriEnv[1] # uriEnv[2]
    /\ calls = 2

=============================================================================
